---- MODULE Spec2Model ----
(***************************************************************************)
(* A model of deepbgc/models/rnn.py: the KerasRNN wrapper (fit, predict,   *)
(* __getstate__, __setstate__) and the batch generator _build_generator.   *)
(*                                                                         *)
(* A feature vector is one token (the input_size axis is carried along by  *)
(* every reshape unchanged, so a token stands for one row of a sample).    *)
(* The token of position j of sample i is 10*i + j; 0 is the padding row.  *)
(* Keras itself is outside the repository: a network is its architecture,  *)
(* its weights and its recurrent state, and a forward pass is a recurrence *)
(* over the input that starts from the stored state.                       *)
(***************************************************************************)
EXTENDS Integers, Sequences, FiniteSets

\* ------------------------------------------------------------------ bounds
MaxN == 2
MaxLen == 2
MaxC == 2
MaxT == 2
MaxEpoch == 2
MaxVal == 1

VARIABLES gen, self, pickled, restored, last

vars == <<gen, self, pickled, restored, last>>

\* ----------------------------------------------------------------- helpers
Min(a, b) == IF a < b THEN a ELSE b

\* np.ceil(a / b) under true division, for non-negative a and positive b
CeilDiv(a, b) == (a + b - 1) \div b

RECURSIVE SumLen(_)
SumLen(l) == IF l = <<>> THEN 0 ELSE Len(Head(l)) + SumLen(Tail(l))

\* np.concatenate of a list of sequences
RECURSIVE Concatenate(_)
Concatenate(l) == IF l = <<>> THEN <<>> ELSE Head(l) \o Concatenate(Tail(l))

\* np.random.permutation(n): any permutation of the n indices
Permutations(n) ==
  {p \in [1..n -> 1..n] : \A i, j \in 1..n : i # j => p[i] # p[j]}

Identity(n) == [i \in 1..n |-> i]

\* arr[shuffled]: fancy indexing, an IndexError when an index is out of range
IndexOk(arr, idx) == \A k \in 1..Len(idx) : idx[k] <= Len(arr)

Take(arr, idx) == [k \in 1..Len(idx) |-> arr[idx[k]]]

\* np.array_split(arr, sections): the first (n mod sections) groups hold one
\* more item than the others, groups are contiguous
ArraySplit(arr, sections) ==
  LET n == Len(arr)
      q == n \div sections
      r == n % sections
      div(k) == k * q + Min(k, r)
  IN [k \in 1..sections |-> SubSeq(arr, div(k - 1) + 1, div(k))]

\* keras pad_sequences(seqs, maxlen, padding='pre', truncating='post'): the
\* zeros precede the data (the library default for padding)
PadSequencesPre(seqs, maxlen) ==
  [k \in 1..Len(seqs) |->
     LET s == seqs[k]
         trunc == SubSeq(s, 1, Min(Len(s), maxlen))
         off == maxlen - Len(trunc)
     IN [m \in 1..maxlen |-> IF m > off THEN trunc[m - off] ELSE 0]]

\* keras pad_sequences(seqs, maxlen, padding='post', truncating='post')
PadSequences(seqs, maxlen) ==
  [k \in 1..Len(seqs) |->
     LET s == seqs[k]
         trunc == SubSeq(s, 1, Min(Len(s), maxlen))
     IN [m \in 1..maxlen |-> IF m <= Len(trunc) THEN trunc[m] ELSE 0]]

\* arr.reshape(d1, d2, d3) of an array given in row-major (flat) order
Reshape3(flat, d1, d2, d3) ==
  [i \in 1..d1 |-> [j \in 1..d2 |-> [k \in 1..d3 |->
     flat[((i - 1) * d2 + (j - 1)) * d3 + k]]]]

\* np.swapaxes(arr, 0, 1) of an array of shape (d1, d2, ...)
SwapAxes01(arr, d1, d2) == [j \in 1..d2 |-> [i \in 1..d1 |-> arr[i][j]]]

\* the row-major order of an array of shape (d1, d2, d3)
Flat3(arr) == Concatenate([i \in 1..Len(arr) |-> Concatenate(arr[i])])

\* `if positive_weight:` -- None and 0 are falsy, inf and nan are truthy
Truthy(pw) ==
  \/ pw.kind \in {"inf", "nan"}
  \/ pw.kind = "num" /\ pw.num # 0

NoWeight == [kind |-> "none", num |-> 0, den |-> 1]

Num(n) == [kind |-> "num", num |-> n, den |-> 1]

\* ------------------------------------------------------- _build_generator
\* num_batches = int(np.ceil(np.ceil(seq_length / batch_size) / timesteps))
NumBatches(X_list, batch_size, timesteps) ==
  CeilDiv(CeilDiv(SumLen(X_list), batch_size), timesteps)

\* One pass of the generator's `while True` body: the arrays of one epoch.
\* err is "IndexError" when y_arr[shuffled] fails, "" otherwise.
EpochArrays(X_list, y_list, batch_size, timesteps, shuffle, shuffled, positive_weight) ==
  LET num_batches == NumBatches(X_list, batch_size, timesteps)
      maxlen == num_batches * timesteps
      ok == ~shuffle \/ IndexOk(y_list, shuffled)
      X_split == ArraySplit(IF shuffle THEN Take(X_list, shuffled) ELSE X_list, batch_size)
      y_split == ArraySplit(IF shuffle THEN Take(y_list, shuffled) ELSE y_list, batch_size)
      X_chunks == [c \in 1..batch_size |-> Concatenate(X_split[c])]
      y_chunks == [c \in 1..batch_size |-> Concatenate(y_split[c])]
      X_padded == PadSequences(X_chunks, maxlen)
      y_padded == PadSequences(y_chunks, maxlen)
      X_batches == SwapAxes01(Reshape3(Concatenate(X_padded), batch_size, num_batches, timesteps),
                              batch_size, num_batches)
      y_batches == SwapAxes01(Reshape3(Concatenate(y_padded), batch_size, num_batches, timesteps),
                              batch_size, num_batches)
      \* weight_batches = np.ones(y_batches.shape); [y_batches == 1] = positive_weight
      w0 == [b \in 1..num_batches |-> [c \in 1..batch_size |-> [t \in 1..timesteps |->
               IF y_batches[b][c][t] = 1 THEN "pw" ELSE "one"]]]
      \* np.swapaxes(weight_batches.reshape(batch_size, num_batches, timesteps), 0, 1)
      weight_batches == SwapAxes01(Reshape3(Flat3(w0), batch_size, num_batches, timesteps),
                                   batch_size, num_batches)
  IN IF ~ok
     THEN [err |-> "IndexError", X_chunks |-> <<>>, y_chunks |-> <<>>, batches |-> <<>>]
     ELSE [err |-> "", X_chunks |-> X_chunks, y_chunks |-> y_chunks,
           batches |-> [b \in 1..num_batches |->
              [X |-> X_batches[b], y |-> y_batches[b],
               w |-> IF Truthy(positive_weight) THEN weight_batches[b] ELSE <<>>]]]

\* --------------------------------------------------------------- inputs
Token(i, j) == 10 * i + j

\* a list of samples from their lengths
MkX(lens) == [i \in 1..Len(lens) |-> [j \in 1..lens[i] |-> Token(i, j)]]

LenLists == UNION {[1..n -> 1..MaxLen] : n \in 0..MaxN}

\* label sequences of a negative (all 0) and of a positive (all 1) sample
LabelSeqs(n) == {[j \in 1..n |-> v] : v \in {0, 1}}

\* label lists that match a list of sample lengths
MatchingLabels(lens) ==
  {yl \in [1..Len(lens) -> UNION {LabelSeqs(n) : n \in 1..MaxLen}] :
     \A i \in 1..Len(lens) : Len(yl[i]) = lens[i]}

\* ------------------------------------------------- the generator as a machine
\* epoch tells the passes of the `while True` loop apart: 0 before the first
\* pass, 1 in the first pass, 2 in every later one; b is the number of batches
\* the running pass has yielded
GenIdle ==
  [phase |-> "idle", X_list |-> <<>>, y_list |-> <<>>, batch_size |-> 1, timesteps |-> 1,
   shuffle |-> FALSE, positive_weight |-> NoWeight, num_batches |-> -1,
   b |-> 0, shuffled |-> <<>>, X_chunks |-> <<>>, y_chunks |-> <<>>,
   batches |-> <<>>, yielded |-> <<>>, epoch |-> 0]

GenArgs ==
  UNION {{[GenIdle EXCEPT !.phase = "args", !.X_list = MkX(lens), !.y_list = yl,
                          !.batch_size = C, !.timesteps = T, !.shuffle = sh,
                          !.positive_weight = pw] :
            yl \in MatchingLabels(lens), C \in 1..MaxC, T \in 1..MaxT,
            sh \in BOOLEAN, pw \in {NoWeight, Num(2)}} :
         lens \in LenLists}

\* _build_generator(...): returns (generator, num_batches), or (_noop, None)
BuildGenerator ==
  /\ gen.phase = "args"
  /\ gen' = IF gen.X_list = <<>>
            THEN [gen EXCEPT !.phase = "noop", !.num_batches = -1]
            ELSE [gen EXCEPT !.phase = "built",
                             !.num_batches = NumBatches(gen.X_list, gen.batch_size, gen.timesteps)]
  /\ UNCHANGED <<self, pickled, restored, last>>

\* next(generator) at the start of an epoch: the `while True` body runs up to
\* its first yield
GenNextEpoch ==
  /\ gen.phase \in {"built", "running"}
  /\ gen.b = (IF gen.phase = "built" THEN 0 ELSE gen.num_batches)
  /\ \E shuffled \in (IF gen.shuffle THEN Permutations(Len(gen.X_list))
                                     ELSE {Identity(Len(gen.X_list))}) :
       LET e == EpochArrays(gen.X_list, gen.y_list, gen.batch_size, gen.timesteps,
                            gen.shuffle, shuffled, gen.positive_weight)
       IN gen' = IF e.err # ""
                 THEN [gen EXCEPT !.phase = "raised"]
                 ELSE [gen EXCEPT !.phase = "running", !.b = 1,
                                  !.epoch = Min(@ + 1, 2),
                                  !.shuffled = shuffled,
                                  !.X_chunks = e.X_chunks, !.y_chunks = e.y_chunks,
                                  !.batches = e.batches,
                                  !.yielded = <<e.batches[1]>>]
  /\ UNCHANGED <<self, pickled, restored, last>>

\* a zip loop that yields once more the batch it yielded last
GenNextBatchAgain ==
  /\ gen.phase = "running"
  /\ gen.b < gen.num_batches
  /\ gen' = [gen EXCEPT !.b = @ + 1, !.yielded = Append(@, gen.batches[gen.b])]
  /\ UNCHANGED <<self, pickled, restored, last>>

\* next(generator) inside an epoch: the zip loop yields the next batch
GenNextBatch ==
  /\ gen.phase = "running"
  /\ gen.b < gen.num_batches
  /\ gen' = [gen EXCEPT !.b = @ + 1, !.yielded = Append(@, gen.batches[gen.b + 1])]
  /\ UNCHANGED <<self, pickled, restored, last>>

\* ------------------------------------------------------------ the network
\* weights, recurrent states and predict's feature tokens range over 0..MaxVal
Values == 0..MaxVal

NoModel ==
  [present |-> FALSE,
   arch |-> [batch |-> 0, input_size |-> 0, hidden_size |-> 0, stateful |-> FALSE],
   weights |-> [v |-> 0, trained |-> FALSE],
   states |-> <<0, 0>>]

\* _build_model: a compiled network of freshly initialised weights w0;
\* batch_input_shape = (custom_batch_size or self.batch_size, None, input_size)
BuildModel(attrs, input_size, custom_batch_size, w0) ==
  [present |-> TRUE,
   arch |-> [batch |-> IF custom_batch_size # 0 THEN custom_batch_size ELSE attrs.batch_size,
             input_size |-> input_size,
             hidden_size |-> attrs.hidden_size,
             stateful |-> attrs.stateful],
   weights |-> [v |-> w0, trained |-> FALSE],
   states |-> <<0, 0>>]

\* one direction of the recurrent layer: the hidden state after each position
RECURSIVE Scan(_, _, _)
Scan(w, h, X) ==
  IF X = <<>> THEN <<>>
  ELSE LET h1 == (h + Head(X) + w) % (MaxVal + 1)
       IN <<h1>> \o Scan(w, h1, Tail(X))

Reverse(s) == [i \in 1..Len(s) |-> s[Len(s) + 1 - i]]

\* keras model.predict on one sequence: a stateful bidirectional layer starts
\* from its stored states and stores its final states; a stateless one starts
\* from zero
ModelPredict(model, X) ==
  LET init == IF model.arch.stateful THEN model.states ELSE <<0, 0>>
      hf == Scan(model.weights.v, init[1], X)
      hb == Reverse(Scan(model.weights.v, init[2], Reverse(X)))
  IN [scores |-> [i \in 1..Len(X) |-> hf[i] + (MaxVal + 1) * hb[i]],
      states |-> IF model.arch.stateful THEN <<hf[Len(X)], hb[1]>> ELSE model.states]

\* a network whose recurrent states are left as the last call stored them
ResetStatesSkipped(model) == model

\* self.model.reset_states()
ResetStates(model) == [model EXCEPT !.states = <<0, 0>>]

\* ------------------------------------------------------------ KerasRNN
\* __init__: the configuration attributes, and no model
NewObject(batch_size, stateful) ==
  [exists |-> TRUE,
   attrs |-> [batch_size |-> batch_size, hidden_size |-> 128, loss |-> "binary_crossentropy",
              stateful |-> stateful, activation |-> "sigmoid", return_sequences |-> TRUE],
   model |-> NoModel,
   origin |-> <<>>]

NoObject == [NewObject(1, TRUE) EXCEPT !.exists = FALSE]

NoPickle ==
  [exists |-> FALSE, attrs |-> NoObject.attrs, has_model |-> FALSE,
   architecture |-> <<>>, weights |-> NoModel.weights, origin |-> <<>>]

\* an argument that is not a list, and a list
NotAList == [list |-> FALSE, v |-> <<>>]

AsList(v) == [list |-> TRUE, v |-> v]

\* a tuple of the same items: indexable and iterable like a list, but no list
AsTuple(v) == [list |-> FALSE, v |-> v]

\* a test that lets any collection pass
IsInstanceAny(arg) == TRUE

\* isinstance(arg, list)
IsInstanceList(arg) == arg.list

\* fit's arguments at their defaults, with empty lists and no validation split
NoArgs ==
  [X_list |-> AsList(<<>>), y_list |-> AsList(<<>>), timesteps |-> 128,
   validation_size |-> 0, num_epochs |-> 10, shuffle |-> TRUE, early_stopping |-> FALSE,
   positive_weight |-> NoWeight, weighted |-> FALSE]

\* the record of the last call: its arguments, what it did and how it ended
LastNone ==
  [op |-> "none", outcome |-> "", stage |-> "", args |-> NoArgs,
   X |-> <<>>, scores |-> <<>>, stale |-> FALSE,
   nonlist |-> FALSE, weighted |-> FALSE, pw_arg |-> NoWeight, empty |-> FALSE,
   mismatch |-> FALSE, degenerate |-> FALSE, built |-> FALSE, refit |-> FALSE,
   batches |-> 0, steps |-> 0, epochs_run |-> 0, early |-> FALSE,
   pw |-> NoWeight, train_weights |-> NoModel.weights]

\* ------------------------------------------------------------ predict
\* predict(X): the call's outcome and the model it leaves
PredictResult(obj, X) ==
  IF X.rank # 2
  THEN [outcome |-> "AttributeError", stage |-> "rank", scores |-> <<>>, model |-> obj.model]
  ELSE IF ~obj.model.present
  THEN [outcome |-> "AttributeError", stage |-> "untrained", scores |-> <<>>, model |-> obj.model]
  ELSE LET m0 == ResetStates(obj.model)
           f == ModelPredict(m0, X.v)
       IN [outcome |-> "returned", stage |-> "", scores |-> f.scores,
           model |-> [m0 EXCEPT !.states = f.states]]

\* feature matrices of predict: a 2-dimensional matrix of 1..MaxLen rows, or
\* an array of another rank
PredictInputs ==
  {[rank |-> 1, v |-> <<>>]} \cup
  {[rank |-> 2, v |-> x] : x \in UNION {[1..n -> Values] : n \in 1..MaxLen}}

Predict ==
  \E X \in PredictInputs :
    LET r == PredictResult(self, X)
    IN /\ self' = [self EXCEPT !.model = r.model]
       /\ last' = [LastNone EXCEPT !.op = "predict",
                                   !.outcome = r.outcome, !.stage = r.stage,
                                   !.X = X.v, !.scores = r.scores,
                                   !.stale = (self.model.states # <<0, 0>>)]
       /\ UNCHANGED <<gen, pickled, restored>>

\* ------------------------------------------------ __getstate__, __setstate__
\* model.to_json(): the architecture as a serialised description
ToJson(model) ==
  <<model.arch.batch, model.arch.input_size, model.arch.hidden_size, model.arch.stateful>>

\* keras model_from_json: a network of that architecture, freshly initialised
ModelFromJson(architecture, w0) ==
  [present |-> TRUE,
   arch |-> [batch |-> architecture[1], input_size |-> architecture[2],
             hidden_size |-> architecture[3], stateful |-> architecture[4]],
   weights |-> [v |-> w0, trained |-> FALSE],
   states |-> <<0, 0>>]

\* a rebuilt network that keeps its fresh initialisation
LoadWeightsSkipped(model, weights) == model

\* self.model.set_weights(weights) of __setstate__
LoadWeights(model, weights) == [model EXCEPT !.weights = weights]

\* __getstate__: (attrs without the model, architecture, weights)
GetStateResult(obj) ==
  IF ~obj.model.present
  THEN [exists |-> TRUE, attrs |-> obj.attrs, has_model |-> FALSE,
        architecture |-> <<>>, weights |-> NoModel.weights,
        origin |-> [attrs |-> obj.attrs, model |-> [obj.model EXCEPT !.states = <<0, 0>>]]]
  ELSE [exists |-> TRUE, attrs |-> obj.attrs, has_model |-> TRUE,
        architecture |-> ToJson(obj.model), weights |-> obj.model.weights,
        origin |-> [attrs |-> obj.attrs, model |-> [obj.model EXCEPT !.states = <<0, 0>>]]]

\* __setstate__(state) on a new object
SetStateResult(state, w0) ==
  [exists |-> TRUE, attrs |-> state.attrs,
   model |-> IF ~state.has_model THEN NoModel
             ELSE LoadWeights(ModelFromJson(state.architecture, w0), state.weights),
   origin |-> state.origin]

GetState ==
  /\ pickled' = GetStateResult(self)
  /\ last' = [LastNone EXCEPT !.op = "save", !.outcome = "returned"]
  /\ UNCHANGED <<gen, self, restored>>

SetState ==
  /\ pickled.exists
  /\ \E w0 \in Values : restored' = SetStateResult(pickled, w0)
  /\ last' = [LastNone EXCEPT !.op = "load", !.outcome = "returned"]
  /\ UNCHANGED <<gen, self, pickled>>

\* ------------------------------------------------------------------- fit
RECURSIVE GCD(_, _)
GCD(a, b) == IF b = 0 THEN a ELSE GCD(b, a % b)

RECURSIVE ProdLen(_)
ProdLen(l) == IF l = <<>> THEN 1 ELSE Len(Head(l)) * ProdLen(Tail(l))

Count(y, klass) == Cardinality({j \in 1..Len(y) : y[j] = klass})

RECURSIVE SumMeans(_, _, _)
SumMeans(l, klass, den) ==
  IF l = <<>> THEN 0
  ELSE Count(Head(l), klass) * (den \div Len(Head(l))) + SumMeans(Tail(l), klass, den)

\* _count_samples: np.sum([np.mean(y == klass) for y in y_list]), a fraction
\* over the product of the sequence lengths
CountSamples(y_list, klass) ==
  [num |-> SumMeans(y_list, klass, ProdLen(y_list)), den |-> ProdLen(y_list)]

\* num_neg / num_pos of two numpy floats: x/0 is inf, 0/0 is nan, no exception
Divide(a, b) ==
  IF b.num = 0
  THEN [kind |-> IF a.num = 0 THEN "nan" ELSE "inf", num |-> 0, den |-> 1]
  ELSE LET n == a.num * b.den
           d == a.den * b.num
           g == GCD(n, d)
       IN [kind |-> "num", num |-> n \div g, den |-> d \div g]

\* the positive_weight in effect after the `if weighted:` block
AutoWeight(a) ==
  IF a.weighted
  THEN Divide(CountSamples(a.y_list.v, 0), CountSamples(a.y_list.v, 1))
  ELSE a.positive_weight

\* sklearn train_test_split(X_list, y_list, test_size=validation_size): the
\* possible outcomes. Lists of different lengths are refused; a split that
\* leaves no training sample is refused by recent versions and returned by
\* older ones.
TrainTestSplit(X_list, y_list, validation_size) ==
  LET n == Len(X_list)
      n_test == CeilDiv(validation_size * n, 100)
      n_train == n - n_test
      failed == [err |-> TRUE, X_train |-> <<>>, y_train |-> <<>>]
  IN IF Len(y_list) # n THEN {failed}
     ELSE IF n_train = 0
     THEN {failed, [err |-> FALSE, X_train |-> <<>>, y_train |-> <<>>]}
     ELSE {[err |-> FALSE,
            X_train |-> Take(X_list, SubSeq(p, n_test + 1, n)),
            y_train |-> Take(y_list, SubSeq(p, n_test + 1, n))] : p \in Permutations(n)}

\* the training lists: lines 148-174
TrainingData(a) ==
  IF a.validation_size # 0
  THEN TrainTestSplit(a.X_list.v, a.y_list.v, a.validation_size)
  ELSE {[err |-> FALSE, X_train |-> a.X_list.v, y_train |-> a.y_list.v]}

\* the sample invariant of a call's lists: as many label sequences as
\* samples, each as long as its sample
Mismatched(X_list, y_list) ==
  \/ Len(X_list) # Len(y_list)
  \/ \E i \in 1..Len(X_list) : Len(X_list[i]) # Len(y_list[i])

\* no positive position or no negative position in the labels
Degenerate(y_list) ==
  \/ \A i \in 1..Len(y_list) : Count(y_list[i], 1) = 0
  \/ \A i \in 1..Len(y_list) : Count(y_list[i], 0) = 0

\* a prediction network that keeps its own initialisation
SyncWeightsSkipped(model, trained_weights) == model

\* trained_weights = train_model.get_weights(); self.model.set_weights(trained_weights)
SyncWeights(model, trained_weights) == [model EXCEPT !.weights = trained_weights]

\* what a fit call records of its arguments
FitCall(a) ==
  [LastNone EXCEPT
     !.op = "fit",
     !.args = a,
     !.nonlist = ~a.X_list.list \/ ~a.y_list.list,
     !.weighted = a.weighted,
     !.pw_arg = a.positive_weight,
     !.early = a.early_stopping,
     !.empty = a.X_list.list /\ a.X_list.v = <<>>,
     !.mismatch = a.X_list.list /\ a.y_list.list /\ Mismatched(a.X_list.v, a.y_list.v),
     !.degenerate = a.y_list.list /\ Degenerate(a.y_list.v),
     !.refit = self.model.present /\ self.model.weights.trained]

\* fit(X_list, y_list, ...) with no external validation set, the default
\* optimizer and no progress path. The training-shaped model's initial
\* weights are never read: fit_generator leaves it with weights wT.
Fit(a) ==
  LET call == FitCall(a)
      Raise(kind, stage) ==
        /\ UNCHANGED self
        /\ last' = [call EXCEPT !.outcome = kind, !.stage = stage]
      RaiseBuilt(kind, stage, model, pw) ==
        /\ self' = [self EXCEPT !.model = model]
        /\ last' = [call EXCEPT !.outcome = kind, !.stage = stage, !.built = TRUE, !.pw = pw]
  IN /\ UNCHANGED <<gen, pickled, restored>>
     /\ IF ~IsInstanceList(a.X_list) THEN Raise("AttributeError", "X_list")
        ELSE IF ~IsInstanceList(a.y_list) THEN Raise("AttributeError", "y_list")
        ELSE IF a.weighted /\ Truthy(a.positive_weight) THEN Raise("ValueError", "weighted")
        ELSE IF a.X_list.v = <<>> THEN Raise("IndexError", "input_size")
        ELSE
          \E w0 \in Values, d \in TrainingData(a) :
            LET positive_weight == AutoWeight(a)
                model == BuildModel(self.attrs, 1, 1, w0)
                num_batches == IF d.X_train = <<>> THEN -1
                               ELSE NumBatches(d.X_train, self.attrs.batch_size, a.timesteps)
            IN IF d.err THEN RaiseBuilt("ValueError", "train_test_split", model, positive_weight)
               ELSE IF num_batches = -1
               THEN RaiseBuilt("ValueError", "steps_per_epoch", model, positive_weight)
               ELSE
                 \E shuffled \in (IF a.shuffle THEN Permutations(Len(d.X_train))
                                               ELSE {Identity(Len(d.X_train))}) :
                   LET e == EpochArrays(d.X_train, d.y_train, self.attrs.batch_size,
                                        a.timesteps, a.shuffle, shuffled, positive_weight)
                   IN IF e.err # ""
                      THEN RaiseBuilt(e.err, "generator", model, positive_weight)
                      ELSE
                        \E epochs_run \in (IF a.early_stopping THEN 1..a.num_epochs
                                                               ELSE {a.num_epochs}),
                           wT \in Values :
                          LET trained_weights == [v |-> wT, trained |-> TRUE]
                          IN /\ self' = [self EXCEPT !.model = SyncWeights(model, trained_weights)]
                             /\ last' = [call EXCEPT
                                           !.outcome = "returned", !.built = TRUE,
                                           !.pw = positive_weight,
                                           !.batches = epochs_run * Len(e.batches),
                                           !.steps = epochs_run * Len(e.batches),
                                           !.epochs_run = epochs_run,
                                           !.train_weights = trained_weights]

\* the label lists of fit: any list of up to MaxN label sequences
LabelLists == UNION {[1..n -> UNION {LabelSeqs(m) : m \in 1..MaxLen}] : n \in 0..MaxN}

\* the calls of fit: any sample list or none, any label list or none, with
\* or without a validation split, shuffling and weighting; MaxT timesteps per
\* batch and no early stopping
FitArgs ==
  [X_list : {NotAList} \cup {AsList(MkX(lens)) : lens \in LenLists},
   y_list : {NotAList} \cup {AsList(yl) : yl \in LabelLists},
   timesteps : {MaxT},
   validation_size : {0, 33},
   num_epochs : {MaxEpoch},
   shuffle : BOOLEAN,
   early_stopping : {FALSE},
   positive_weight : {NoWeight, Num(0), Num(2)},
   weighted : BOOLEAN]

\* the calls of a plain training run and of its common failures: one sample
\* of MaxLen rows with all-negative labels, default weighting, no shuffling,
\* one timestep per batch. With a validation split the one sample leaves no
\* training data. The ill-typed calls pass the samples as no collection or as
\* a tuple, or the labels as a tuple.
CoreArgs ==
  LET X == MkX(<<MaxLen>>)
      y == <<[j \in 1..MaxLen |-> 0]>>
      call(Xa, ya, vs, es) ==
        [X_list |-> Xa, y_list |-> ya,
         timesteps |-> 1, validation_size |-> vs, num_epochs |-> MaxEpoch, shuffle |-> FALSE,
         early_stopping |-> es, positive_weight |-> NoWeight, weighted |-> FALSE]
  IN {call(AsList(X), AsList(y), vs, es) : vs \in {0, 33}, es \in BOOLEAN}
       \cup {call(NotAList, AsList(y), 0, FALSE),
             call(AsTuple(X), AsList(y), 0, FALSE),
             call(AsList(X), AsTuple(y), 0, FALSE)}

\* fit with the calls of CoreArgs
FitCore == \E a \in CoreArgs : Fit(a)

\* the first fit call on a new object, with any arguments
FitOnce == last.op = "none" /\ \E a \in FitArgs : Fit(a)

\* ------------------------------------------------------------ specifications
Init ==
  /\ gen = GenIdle
  /\ self \in {NewObject(C, st) : C \in 1..MaxC, st \in BOOLEAN}
  /\ pickled = NoPickle
  /\ restored = NoObject
  /\ last = LastNone

\* an object that is trained and asked for predictions
Next == FitCore \/ Predict

Spec == Init /\ [][Next]_vars

\* an object that is trained, saved and loaded
NextPickle == FitCore \/ GetState \/ SetState

SpecPickle == Init /\ [][NextPickle]_vars

\* one fit call, over all argument combinations
NextFit == FitOnce

SpecFit == Init /\ [][NextFit]_vars

\* a generator that is built and pulled
InitGen ==
  /\ gen \in GenArgs
  /\ self = NewObject(1, TRUE)
  /\ pickled = NoPickle
  /\ restored = NoObject
  /\ last = LastNone

NextGen == BuildGenerator \/ GenNextEpoch \/ GenNextBatch

SpecGen == InitGen /\ [][NextGen]_vars

\* ------------------------------------------------------------------ claims
\* the generator has yielded every batch of the current epoch
EpochComplete == gen.phase = "running" /\ gen.b = gen.num_batches

\* the windows that lane c received in this epoch, one after the other
LaneOf(field, c) ==
  Concatenate([k \in 1..Len(gen.yielded) |-> gen.yielded[k][field][c]])

\* a sequence cut or filled with zeros at its end to n items
PostPadded(s, n) == [m \in 1..n |-> IF m <= Len(s) THEN s[m] ELSE 0]

\* C1: the scores a predict call returns are those of a forward pass over its
\* input that starts from the zero recurrent state, whatever calls came before:
\* they depend on the input and the parameters alone.
C1_PredictIndependent ==
  (last.op = "predict" /\ last.outcome = "returned") =>
    last.scores = ModelPredict([self.model EXCEPT !.states = <<0, 0>>], last.X).scores

\* a predict call answered by a model whose recurrent state an earlier call
\* had left non-zero
C1_Witness ==
  last.op = "predict" /\ last.outcome = "returned" /\ last.stale

C3_EveryPositionYielded ==
  EpochComplete =>
    \A i \in 1..Len(gen.X_list) : \A j \in 1..Len(gen.X_list[i]) :
      Cardinality({<<k, c, t>> \in (1..gen.num_batches) \X (1..gen.batch_size) \X (1..gen.timesteps) :
                     /\ gen.yielded[k].X[c][t] = gen.X_list[i][j]
                     /\ gen.yielded[k].y[c][t] = gen.y_list[i][j]}) = 1

\* C4: fit with weighted=true and an explicitly given positive_weight, of any
\* value, raises the value error before a weight is computed or a model built.
C4_WeightedConflictRaises ==
  (/\ last.op = "fit" /\ ~last.nonlist /\ ~last.empty /\ ~last.mismatch
   /\ last.weighted /\ last.pw_arg.kind # "none") =>
    (last.outcome = "ValueError" /\ last.stage = "weighted" /\ ~last.built)

\* C5: after a fit call that returns, the inference-shaped model (chunk count 1)
\* held by the object has the final parameters of that call's training run.
C5_ModelSynced ==
  (last.op = "fit" /\ last.outcome = "returned") =>
    /\ self.model.present
    /\ self.model.arch.batch = 1
    /\ self.model.weights = last.train_weights
    /\ last.train_weights.trained

\* a fit call that returned after early stopping, on an object that an
\* earlier call had trained
C5_Witness ==
  /\ last.op = "fit" /\ last.outcome = "returned"
  /\ last.refit /\ last.early /\ last.epochs_run < MaxEpoch

\* C6: predict returns scores only from parameters that a completed training
\* run produced.
C6_PredictNeedsTraining ==
  (last.op = "predict" /\ last.outcome = "returned") => self.model.weights.trained

\* C7: fit with an empty sample list returns without an optimization step.
C7_EmptyFitReturns ==
  (/\ last.op = "fit" /\ ~last.nonlist /\ last.empty /\ ~last.mismatch
   /\ ~last.weighted /\ last.pw_arg.kind = "none") =>
    (last.outcome = "returned" /\ last.steps = 0)

\* C8: fit with weighted=true on labels without a positive or without a
\* negative position raises and never trains.
C8_DegenerateGuarded ==
  (/\ last.op = "fit" /\ ~last.nonlist /\ ~last.empty /\ ~last.mismatch
   /\ last.weighted /\ last.pw_arg.kind = "none" /\ last.degenerate) =>
    (last.outcome # "returned" /\ last.steps = 0)

\* C9: fit with label sequences that do not match the samples, in number or
\* in length, raises before a batch is generated or a training step runs.
C9_MismatchRaises ==
  (last.op = "fit" /\ last.mismatch /\ ~last.empty /\ ~last.weighted /\ last.pw_arg.kind = "none") =>
    (last.outcome # "returned" /\ last.batches = 0 /\ last.steps = 0)

\* C10: an object restored by __setstate__ from what __getstate__ returned has
\* the attributes of the saved object; if that one held a model, the same
\* architecture and parameters and so the same answer of predict to every
\* input, and if it held none, no model and predict's state error.
C10_SaveLoadRoundTrip ==
  restored.exists =>
    LET o == restored.origin
    IN /\ restored.attrs = o.attrs
       /\ restored.model.present = o.model.present
       /\ restored.model.arch = o.model.arch
       /\ restored.model.weights = o.model.weights
       /\ \A X \in PredictInputs :
            LET r == PredictResult(restored, X)
                q == PredictResult([restored EXCEPT !.model = o.model], X)
            IN /\ r.outcome = q.outcome /\ r.stage = q.stage /\ r.scores = q.scores
               /\ (X.rank = 2 /\ o.model.present) => r.outcome = "returned"
               /\ (X.rank = 2 /\ ~o.model.present) => r.stage = "untrained"

\* an object restored from a trained one that has been trained again since,
\* to other parameters
C10_Witness ==
  /\ restored.exists /\ restored.model.present /\ restored.model.weights.trained
  /\ self.model.weights # restored.model.weights

\* C11: a fit call whose samples or whose labels are not a list raises the
\* type complaint (python's AttributeError) before any model is built: the
\* object, its model included, is after the call what it was before.
C11_NonListLeavesModel ==
  [][(last'.op = "fit" /\ last'.nonlist) =>
       /\ last'.outcome = "AttributeError"
       /\ last'.stage \in {"X_list", "y_list"}
       /\ ~last'.built
       /\ self' = self]_vars

\* a fit call with a non-list argument on an object that holds a trained model
C11_Witness ==
  /\ last.op = "fit" /\ last.nonlist /\ last.outcome = "AttributeError"
  /\ last.refit /\ self.model.present /\ self.model.weights.trained

\* the window of T positions that batch k holds of lane c's padded chunk
WindowOf(chunks, c, k) ==
  LET T == gen.timesteps
      padded == PostPadded(chunks[c], gen.num_batches * T)
  IN [t \in 1..T |-> padded[(k - 1) * T + t]]

\* the generator has a next item: inside an epoch the zip loop's next batch,
\* at its end a new pass of the loop that raises for no permutation
HasNext ==
  IF gen.b < gen.num_batches
  THEN ENABLED GenNextBatch
  ELSE \A shuffled \in (IF gen.shuffle THEN Permutations(Len(gen.X_list))
                                        ELSE {Identity(Len(gen.X_list))}) :
         EpochArrays(gen.X_list, gen.y_list, gen.batch_size, gen.timesteps,
                     gen.shuffle, shuffled, gen.positive_weight).err = ""

\* the batches of the running epoch are yielded in increasing index order:
\* the k-th item of the epoch is window k of every lane, and a next item can
\* always be pulled
C12_InOrder ==
  gen.phase = "running" =>
    /\ gen.b \in 1..gen.num_batches
    /\ Len(gen.yielded) = gen.b
    /\ \A k \in 1..gen.b : \A c \in 1..gen.batch_size :
         /\ gen.yielded[k].X[c] = WindowOf(gen.X_chunks, c, k)
         /\ gen.yielded[k].y[c] = WindowOf(gen.y_chunks, c, k)
    /\ HasNext

\* a pull moves to the next batch index of the epoch, or from the last index
\* to index 1 of the next epoch; permutation and chunks change only there,
\* and without shuffling the next epoch's batches are the last epoch's
C12_PullStep ==
  (gen.phase = "running" /\ gen' # gen) =>
    /\ gen'.phase = "running"
    /\ IF gen.b < gen.num_batches
       THEN /\ gen'.b = gen.b + 1
            /\ gen'.epoch = gen.epoch
            /\ gen'.shuffled = gen.shuffled
            /\ gen'.X_chunks = gen.X_chunks /\ gen'.y_chunks = gen.y_chunks
            /\ gen'.batches = gen.batches
       ELSE /\ gen'.b = 1
            /\ gen'.epoch = Min(gen.epoch + 1, 2)
            /\ ~gen.shuffle => gen'.batches = gen.batches

\* C12: the generator of a non-empty sample list with matching labels never
\* terminates and yields, pull after pull, batch 1..num_batches of epoch 1,
\* then batch 1..num_batches of epoch 2, and so on; the permutation and the
\* chunks change only at an epoch boundary, and without shuffling every
\* epoch yields the same batches.
C12_EpochsInOrder == [](C12_InOrder) /\ [][C12_PullStep]_vars

\* a later epoch of several batches, pulled to its end, over shuffled samples
\* of several lanes
C12_Witness ==
  /\ gen.phase = "running" /\ gen.shuffle /\ gen.epoch = 2
  /\ gen.num_batches > 1 /\ gen.b = gen.num_batches /\ gen.batch_size > 1
  /\ gen.shuffled # Identity(Len(gen.X_list))

====
